---- MODULE Spec2Model ----
(***************************************************************************)
(* Production-plan optimizer (src/app.py): the button handler normalises   *)
(* the edited table, calcular_e_otimizar builds a linear program with one  *)
(* capacity row and per-variant bounds, scipy's linprog solves it, and the *)
(* continuous solution is optionally rounded, profit and time recomputed.  *)
(*                                                                         *)
(* Fixed-point units (the code uses float64):                              *)
(*   prices, unit profit     whole reais                                   *)
(*   unit time, capacity     twentieths of an hour (0.45 h = 9, 1 h = 20)  *)
(*   quantities, bounds      1/Sub of a unit (Sub sub-units per unit)      *)
(*   total profit            reais / Sub                                   *)
(*   total time              twentieths of an hour / Sub                   *)
(***************************************************************************)
EXTENDS Integers, Sequences, FiniteSets, TLC

VARIABLES df_editado, horas_total, arredondar_resultado,
          TEMPOS_POR_CATEGORIA, pc, chamou, df_validado, resultados, tela

vars == <<df_editado, horas_total, arredondar_resultado,
          TEMPOS_POR_CATEGORIA, pc, chamou, df_validado, resultados, tela>>

\* A missing text cell (pandas NaN / None) of the columns Modelo and Categoria.
NaN == "NaN"
\* Python's None.
None == "None"
\* A numeric cell: <<v>> holds the number v, <<>> is missing (NaN).
Num(v) == <<v>>
NumNaN == <<>>
Valor(c) == c[1]
\* A capacity argument: a number, NaN, or a value that is not numeric (the
\* sidebar always yields a number; a direct caller may pass anything).
Horas(v) == [num |-> v]
HorasNaN == [nan |-> TRUE]
HorasTexto == [texto |-> TRUE]
IsNumber(h) == DOMAIN h = {"num"}

\* Sub-units per unit: twice lcm(9, 8, 6), so that half-unit bounds and every
\* vertex of the linear program (a capacity remainder divided by a unit time)
\* are whole numbers of sub-units.
Sub == 2 * 72
Meio == Sub \div 2

\* Unit times of the categories, in twentieths of an hour.
TEMPOS == [G |-> 9, M |-> 8, P |-> 6]

\* number_input(min_value=1.0): the sidebar never yields less than one hour.
HorasMinimas == 20
\* number_input(value=300.0) is far above what any catalogued table can use;
\* the scenario of the specification runs with 20 hours.

-----------------------------------------------------------------------------
(* Arithmetic helpers (numpy) *)

RECURSIVE SumSeq(_)
SumSeq(s) == IF s = <<>> THEN 0 ELSE Head(s) + SumSeq(Tail(s))

\* np.dot of two vectors of the same length.
Dot(a, b) == SumSeq([i \in 1..Len(a) |-> a[i] * b[i]])

\* np.round(q).astype(int) of one quantity, in sub-units: nearest whole unit,
\* a tie (exactly one half) going to the even unit (RoundAcima: the variant
\* that rounds up, np.ceil).
RoundAcima(q) == Sub * ((q + Sub - 1) \div Sub)
Round(q) ==
  LET f == q \div Sub
      r == q % Sub
  IN  IF r < Meio THEN Sub * f
      ELSE IF r > Meio THEN Sub * (f + 1)
      ELSE IF f % 2 = 0 THEN Sub * f ELSE Sub * (f + 1)

-----------------------------------------------------------------------------
(* The table *)

Linha(m, c, v, cu, mn, mx) ==
  [Modelo |-> m, Categoria |-> c, PrecoVenda |-> v, PrecoCusto |-> cu,
   MinVenda |-> mn, MaxVenda |-> mx]

FillNa(v, d) == IF v = NaN THEN d ELSE v
FillNaNum(c, d) == IF c = NumNaN THEN Num(d) ELSE c

\* Lines 135-144: the copy with missing categories and numbers filled
\* (PreencherSemCategoria: the variant that forgets line 138).
PreencherSemCategoria(df) ==
  [i \in 1..Len(df) |->
     [df[i] EXCEPT !.PrecoVenda = FillNaNum(@, 0), !.PrecoCusto = FillNaNum(@, 0),
                   !.MinVenda = FillNaNum(@, 0), !.MaxVenda = FillNaNum(@, 0)]]
Preencher(df) ==
  [i \in 1..Len(df) |->
     [df[i] EXCEPT !.Categoria = FillNa(@, "G"),
                   !.PrecoVenda = FillNaNum(@, 0), !.PrecoCusto = FillNaNum(@, 0),
                   !.MinVenda = FillNaNum(@, 0), !.MaxVenda = FillNaNum(@, 0)]]

\* Line 146: dropna(subset=['Modelo']) (DropNaNada: the variant that drops
\* nothing).
DropNaNada(df) == df
DropNaModelo(df) == SelectSeq(df, LAMBDA r : r.Modelo # NaN)

Normalizar(df) == DropNaModelo(Preencher(df))

-----------------------------------------------------------------------------
(* scipy.optimize.linprog(c, A_ub, b_ub, bounds, method='highs') with one   *)
(* inequality row: minimise c.x subject to A_ub.x <= b_ub, lo <= x <= hi.   *)
(* x is in sub-units, so the row reads A_ub.x <= b_ub * Sub.  The optimum   *)
(* of a bounded linear program is attained at a vertex; with one row a      *)
(* vertex has every coordinate at a bound except at most one, which then    *)
(* fills the row exactly.  Ties between optimal vertices are the solver's   *)
(* choice.                                                                  *)

Corners(bounds) ==
  LET n == Len(bounds)
      vals == UNION {{bounds[i][1], bounds[i][2]} : i \in 1..n}
  IN  {x \in [1..n -> vals] : \A i \in 1..n : x[i] \in {bounds[i][1], bounds[i][2]}}

\* The corner x with coordinate k moved so that the row is tight, when that
\* is a whole number of sub-units (it always is for the inputs used here).
Fills(A_ub, b_ub, bounds) ==
  LET n == Len(bounds)
  IN  {[x EXCEPT ![k] = ((b_ub * Sub) - (Dot(A_ub, x) - A_ub[k] * x[k])) \div A_ub[k]] :
         <<x, k>> \in {xk \in Corners(bounds) \X (1..n) :
                         /\ A_ub[xk[2]] > 0
                         /\ ((b_ub * Sub) - (Dot(A_ub, xk[1]) - A_ub[xk[2]] * xk[1][xk[2]]))
                               % A_ub[xk[2]] = 0}}

Feasible(x, A_ub, b_ub, bounds) ==
  /\ \A i \in 1..Len(bounds) : bounds[i][1] <= x[i] /\ x[i] <= bounds[i][2]
  /\ Dot(A_ub, x) <= b_ub * Sub

Vertices(A_ub, b_ub, bounds) ==
  {x \in Corners(bounds) \cup Fills(A_ub, b_ub, bounds) : Feasible(x, A_ub, b_ub, bounds)}

Optimal(c, A_ub, b_ub, bounds) ==
  LET V == Vertices(A_ub, b_ub, bounds)
  IN  {x \in V : \A y \in V : Dot(c, x) <= Dot(c, y)}

\* The set of results the call can produce: an exception of scipy's input
\* cleaning (ValueError for a NaN right-hand side, TypeError for one that is
\* not numeric), status "infeasible" (also for a row with min > max), or an
\* optimal vertex with its objective value.
linprog(c, A_ub, b_ub, bounds) ==
  IF b_ub = HorasNaN THEN {[raise |-> "ValueError"]}
  ELSE IF ~IsNumber(b_ub) THEN {[raise |-> "TypeError"]}
  ELSE LET O == Optimal(c, A_ub, b_ub.num, bounds)
       IN  IF O = {} THEN {[raise |-> None, success |-> FALSE, message |-> "infeasible"]}
           ELSE {[raise |-> None, success |-> TRUE, message |-> "optimal",
                  x |-> x, fun |-> Dot(c, x)] : x \in O}

-----------------------------------------------------------------------------
(* calcular_e_otimizar *)

\* Line 22.
LucroUnitario(df) == [i \in 1..Len(df) |-> Valor(df[i].PrecoVenda) - Valor(df[i].PrecoCusto)]

\* Line 25: linprog minimises, so the profit is negated (lucros_c_sem_sinal:
\* the variant that forgets the sign).
lucros_c_sem_sinal(df) == LucroUnitario(df)
lucros_c(df) == [i \in 1..Len(df) |-> -LucroUnitario(df)[i]]

\* Line 29: .map(TEMPOS_POR_CATEGORIA).fillna(0).
TempoPorUnidade(df, tempos) ==
  [i \in 1..Len(df) |->
     IF df[i].Categoria \in DOMAIN tempos THEN tempos[df[i].Categoria] ELSE 0]

\* Line 31: the single constraint row (A_ub_zeros: the variant that passes
\* no unit times).
A_ub_zeros(df, tempos) == [i \in 1..Len(df) |-> 0]
A_ub(df, tempos) == TempoPorUnidade(df, tempos)

\* Lines 36-38: one (min, max) pair per row (bounds_list_sem_min: the variant
\* that leaves linprog's default lower bound 0).
bounds_list_sem_min(df) == [i \in 1..Len(df) |-> <<0, Valor(df[i].MaxVenda)>>]
bounds_list(df) == [i \in 1..Len(df) |-> <<Valor(df[i].MinVenda), Valor(df[i].MaxVenda)>>]

\* Lines 55-58: the quantities returned.
quantidades(x, arredondar) ==
  IF arredondar THEN [i \in 1..Len(x) |-> Round(x[i])] ELSE x

\* Lines 54-60: the profit returned (lucro_maximo_da_solucao: the variant
\* that keeps the solver's objective value after rounding).
lucro_maximo_da_solucao(res, q, df, arredondar) == -res.fun
lucro_maximo(res, q, df, arredondar) ==
  IF arredondar THEN Dot(q, LucroUnitario(df)) ELSE -res.fun

\* Lines 53-69: what is returned for one result of the solver.
Processar(res, df, tempos, arredondar) ==
  IF res.success
  THEN LET q == quantidades(res.x, arredondar)
           t == TempoPorUnidade(df, tempos)
       IN  [tipo |-> "plano",
            df |-> [i \in 1..Len(df) |->
                      [Modelo |-> df[i].Modelo, Categoria |-> df[i].Categoria,
                       PrecoVenda |-> df[i].PrecoVenda, PrecoCusto |-> df[i].PrecoCusto,
                       MinVenda |-> df[i].MinVenda, MaxVenda |-> df[i].MaxVenda,
                       LucroUnitario |-> LucroUnitario(df)[i],
                       TempoPorUnidade |-> t[i],
                       ProducaoIdeal |-> q[i],
                       TempoTotal |-> t[i] * q[i]]],
            lucro_maximo |-> lucro_maximo(res, q, df, arredondar),
            tempo_usado |-> Dot(t, q),
            x |-> res.x,
            fun |-> res.fun,
            mensagem |-> res.message]
  ELSE [tipo |-> "erro", mensagem |-> res.message]

\* Lines 22 and 29: the two columns the function adds to its argument before
\* the solve, whatever the outcome.
ComDerivadas(df, tempos) ==
  [i \in 1..Len(df) |->
     [Modelo |-> df[i].Modelo, Categoria |-> df[i].Categoria,
      PrecoVenda |-> df[i].PrecoVenda, PrecoCusto |-> df[i].PrecoCusto,
      MinVenda |-> df[i].MinVenda, MaxVenda |-> df[i].MaxVenda,
      LucroUnitario |-> LucroUnitario(df)[i],
      TempoPorUnidade |-> TempoPorUnidade(df, tempos)[i]]]

\* Lines 20-69: every outcome of one call.  "excecao" is an exception that
\* leaves the function.
calcular_e_otimizar(df_modelos, horas, arredondar, tempos) ==
  {IF res.raise = "ValueError"
     THEN [tipo |-> "erro", mensagem |-> "Erro nos dados de entrada"]
   ELSE IF res.raise # None
     THEN [tipo |-> "excecao", mensagem |-> res.raise]
   ELSE Processar(res, df_modelos, tempos, arredondar) :
   res \in linprog(lucros_c(df_modelos), A_ub(df_modelos, tempos), horas,
                   bounds_list(df_modelos))}

-----------------------------------------------------------------------------
(* Inputs *)

\* Bounds of the model.
MaxLinhas == 2
MaxPassos == 7
PassoHoras == 4

\* k half-units, in sub-units.
U(k) == k * Meio

\* The rows a table is built from: the three categories, an unrecognised
\* and a missing category, a missing id, missing numbers, negative and zero
\* unit profit, half-unit bounds, and a row with min > max.
Catalogo ==
  { Linha("B1", "G", Num(10), Num(0), Num(U(0)), Num(U(6))),
    Linha("B2", "P", Num(8), Num(3), Num(U(2)), Num(U(4))),
    Linha("B3", "M", Num(9), Num(2), Num(U(0)), Num(U(4))),
    Linha("B4", "X", Num(6), Num(0), Num(U(0)), Num(U(4))),
    Linha("B5", NaN, Num(5), NumNaN, NumNaN, Num(U(4))),
    Linha(NaN, "G", Num(10), Num(0), Num(U(2)), Num(U(6))),
    Linha("B6", "M", Num(3), Num(7), Num(U(1)), Num(U(3))),
    Linha("B7", "G", Num(9), Num(0), Num(U(3)), Num(U(3))),
    Linha("B8", "M", Num(8), Num(0), Num(U(4)), Num(U(2))),
    Linha("B9", "P", Num(4), Num(4), Num(U(0)), Num(U(4))) }

Tabelas == UNION {[1..n -> Catalogo] : n \in 0..MaxLinhas}

\* Capacities from below zero to above one hour, in steps of PassoHoras.
HorasNumericas == {Horas(k * PassoHoras) : k \in -1..MaxPassos}

\* The scenario of the specification: unit profits 10, 8, 5, unit times
\* 0.45, 0.40, 0.30, bounds (0,36), (0,28), (0,24), capacity 20 h.
Cenario ==
  << Linha("V1", "G", Num(30), Num(20), Num(0), Num(36 * Sub)),
     Linha("V2", "M", Num(20), Num(12), Num(0), Num(28 * Sub)),
     Linha("V3", "P", Num(15), Num(10), Num(0), Num(24 * Sub)) >>
HorasCenario == Horas(20 * 20)

SemNaN(df) ==
  \A i \in 1..Len(df) :
    /\ df[i].PrecoVenda # NumNaN /\ df[i].PrecoCusto # NumNaN
    /\ df[i].MinVenda # NumNaN /\ df[i].MaxVenda # NumNaN

-----------------------------------------------------------------------------
(* The session *)

Nenhum == [tipo |-> "nenhum"]

Init ==
  /\ \/ /\ df_editado \in Tabelas
        /\ horas_total \in HorasNumericas \cup {HorasNaN, HorasTexto}
     \/ /\ df_editado = Cenario
        /\ horas_total = HorasCenario
  /\ arredondar_resultado \in BOOLEAN
  /\ TEMPOS_POR_CATEGORIA = TEMPOS
  /\ pc = "pronto"
  /\ chamou = FALSE
  /\ df_validado = <<>>
  /\ resultados = Nenhum
  /\ tela = "nada"

\* Lines 135 and 146: the handler works on copies, so what
\* calcular_e_otimizar writes into its argument never shows in df_editado
\* (EditadoSemCopia: the variant that passes df_editado itself).
EditadoSemCopia(editado, escrito) == escrito
EditadoAposRequisicao(editado, escrito) == editado

\* Lines 156-195: what the page shows for an outcome.
Exibir(r) ==
  IF r.tipo = "plano" THEN "sucesso"
  ELSE IF r.tipo = "erro" THEN "erro_sem_solucao"
  ELSE "traceback"

\* Lines 22-65: the argument table after the call.
TabelaEscrita(df, r, tempos) ==
  IF r.tipo = "plano" THEN r.df ELSE ComDerivadas(df, tempos)

\* Lines 132-195: the button handler; the sidebar's capacity is a number of
\* at least one hour.
Botao ==
  /\ pc = "pronto"
  /\ IsNumber(horas_total)
  /\ horas_total.num >= HorasMinimas
  /\ LET v == Normalizar(df_editado)
     IN  IF v = <<>>
         THEN /\ df_validado' = v
              /\ chamou' = FALSE
              /\ resultados' = Nenhum
              /\ tela' = "erro_vazio"
              /\ df_editado' = df_editado
         ELSE \E r \in calcular_e_otimizar(v, horas_total, arredondar_resultado,
                                           TEMPOS_POR_CATEGORIA) :
                /\ df_validado' = TabelaEscrita(v, r, TEMPOS_POR_CATEGORIA)
                /\ chamou' = TRUE
                /\ resultados' = r
                /\ tela' = Exibir(r)
                /\ df_editado' = EditadoAposRequisicao(df_editado, df_validado')
  /\ pc' = "fim"
  /\ UNCHANGED <<horas_total, arredondar_resultado, TEMPOS_POR_CATEGORIA>>

\* Lines 20-69 called directly (the operation the core exposes) on a table
\* of the caller's own with at least one row and no missing number, with any
\* capacity argument.
ChamarDireto ==
  /\ pc = "pronto"
  /\ df_editado # <<>>
  /\ SemNaN(df_editado)
  /\ \E r \in calcular_e_otimizar(df_editado, horas_total, arredondar_resultado,
                                  TEMPOS_POR_CATEGORIA) :
       /\ df_validado' = TabelaEscrita(df_editado, r, TEMPOS_POR_CATEGORIA)
       /\ resultados' = r
       /\ tela' = IF r.tipo = "excecao" THEN "traceback" ELSE "nada"
  /\ chamou' = TRUE
  /\ pc' = "direto"
  /\ UNCHANGED <<df_editado, horas_total, arredondar_resultado, TEMPOS_POR_CATEGORIA>>

\* A rerun of the script: the page is cleared, the widgets keep their values.
Rerun ==
  /\ pc \in {"fim", "direto"}
  /\ pc' = "pronto"
  /\ chamou' = FALSE
  /\ df_validado' = <<>>
  /\ resultados' = Nenhum
  /\ tela' = "nada"
  /\ UNCHANGED <<df_editado, horas_total, arredondar_resultado, TEMPOS_POR_CATEGORIA>>

Next == Botao \/ ChamarDireto \/ Rerun

Spec == Init /\ [][Next]_vars

-----------------------------------------------------------------------------
(* Concurrent sessions: every variable holds one value per session, except   *)
(* the module-level TEMPOS_POR_CATEGORIA.  A session's script run is the      *)
(* normalisation (lines 135-149) followed by the call and the display (lines  *)
(* 150-195); runs of different sessions interleave between the two.           *)

Sessoes == {"s1", "s2"}

TabelasConc ==
  { <<>>,
    << Linha("B1", "G", Num(10), Num(0), Num(U(0)), Num(U(6))) >>,
    << Linha(NaN, "G", Num(10), Num(0), Num(U(2)), Num(U(6))),
       Linha("B5", NaN, Num(5), NumNaN, NumNaN, Num(U(4))) >>,
    << Linha("B8", "M", Num(8), Num(0), Num(U(4)), Num(U(2))) >> }

HorasConc == {h \in HorasNumericas : h.num >= HorasMinimas /\ h.num <= HorasMinimas + PassoHoras}

InitConc ==
  /\ df_editado \in [Sessoes -> TabelasConc]
  /\ horas_total \in [Sessoes -> HorasConc]
  /\ arredondar_resultado \in [Sessoes -> BOOLEAN]
  /\ TEMPOS_POR_CATEGORIA = TEMPOS
  /\ pc = [s \in Sessoes |-> "pronto"]
  /\ chamou = [s \in Sessoes |-> FALSE]
  /\ df_validado = [s \in Sessoes |-> <<>>]
  /\ resultados = [s \in Sessoes |-> Nenhum]
  /\ tela = [s \in Sessoes |-> "nada"]

\* Lines 132-149: the copies, the fills, the dropna and the empty check.
BotaoNormalizar(s) ==
  /\ pc[s] = "pronto"
  /\ LET v == Normalizar(df_editado[s])
     IN  /\ df_validado' = [df_validado EXCEPT ![s] = v]
         /\ IF v = <<>>
            THEN /\ tela' = [tela EXCEPT ![s] = "erro_vazio"]
                 /\ pc' = [pc EXCEPT ![s] = "fim"]
            ELSE /\ tela' = tela
                 /\ pc' = [pc EXCEPT ![s] = "validado"]
  /\ UNCHANGED <<df_editado, horas_total, arredondar_resultado,
                 TEMPOS_POR_CATEGORIA, chamou, resultados>>

\* Lines 150-195: the call on the session's copy, and the display.
BotaoCalcular(s) ==
  /\ pc[s] = "validado"
  /\ \E r \in calcular_e_otimizar(df_validado[s], horas_total[s],
                                  arredondar_resultado[s], TEMPOS_POR_CATEGORIA) :
       /\ df_validado' =
            [df_validado EXCEPT ![s] = TabelaEscrita(@, r, TEMPOS_POR_CATEGORIA)]
       /\ resultados' = [resultados EXCEPT ![s] = r]
       /\ tela' = [tela EXCEPT ![s] = Exibir(r)]
       /\ df_editado' =
            [df_editado EXCEPT ![s] = EditadoAposRequisicao(@, df_validado'[s])]
  /\ chamou' = [chamou EXCEPT ![s] = TRUE]
  /\ pc' = [pc EXCEPT ![s] = "fim"]
  /\ UNCHANGED <<horas_total, arredondar_resultado, TEMPOS_POR_CATEGORIA>>

\* Lines 88-127: the user changes the widgets of a finished page, which
\* reruns the script and clears the page.
Editar(s) ==
  /\ pc[s] = "fim"
  /\ \E t \in TabelasConc, h \in HorasConc, a \in BOOLEAN :
       /\ df_editado' = [df_editado EXCEPT ![s] = t]
       /\ horas_total' = [horas_total EXCEPT ![s] = h]
       /\ arredondar_resultado' = [arredondar_resultado EXCEPT ![s] = a]
  /\ pc' = [pc EXCEPT ![s] = "pronto"]
  /\ chamou' = [chamou EXCEPT ![s] = FALSE]
  /\ df_validado' = [df_validado EXCEPT ![s] = <<>>]
  /\ resultados' = [resultados EXCEPT ![s] = Nenhum]
  /\ tela' = [tela EXCEPT ![s] = "nada"]
  /\ UNCHANGED TEMPOS_POR_CATEGORIA

NextConc == \E s \in Sessoes : BotaoNormalizar(s) \/ BotaoCalcular(s) \/ Editar(s)

SpecConc == InitConc /\ [][NextConc]_vars

-----------------------------------------------------------------------------
(* Properties *)

Terminou == pc \in {"fim", "direto"}
PlanoRetornado == Terminou /\ resultados.tipo = "plano"

\* The table calcular_e_otimizar was given.
Entrada == IF pc = "fim" THEN Normalizar(df_editado) ELSE df_editado

\* Unit time and unit profit of a row as the specification defines them.
TempoDaLinha(r) == IF r.Categoria \in DOMAIN TEMPOS THEN TEMPOS[r.Categoria] ELSE 0
LucroDaLinha(r) == Valor(r.PrecoVenda) - Valor(r.PrecoCusto)

Producao == [i \in 1..Len(resultados.df) |-> resultados.df[i].ProducaoIdeal]

LimitesValidos(df) ==
  \A i \in 1..Len(df) : Valor(df[i].MinVenda) <= Valor(df[i].MaxVenda)

\* C1: with rounding disabled and every row's min_units <= max_units, each
\* returned quantity lies within its row's [min_units, max_units], the
\* returned total time is the sum of quantity * unit time, and it does not
\* exceed the capacity.
C1_ContinuoRespeitaLimitesECapacidade ==
  (PlanoRetornado /\ ~arredondar_resultado /\ LimitesValidos(Entrada)) =>
    /\ Len(resultados.df) = Len(Entrada)
    /\ \A i \in 1..Len(Entrada) :
         /\ Valor(Entrada[i].MinVenda) <= Producao[i]
         /\ Producao[i] <= Valor(Entrada[i].MaxVenda)
    /\ resultados.tempo_usado =
         SumSeq([i \in 1..Len(Entrada) |-> Producao[i] * TempoDaLinha(Entrada[i])])
    /\ resultados.tempo_usado <= horas_total.num * Sub

\* A continuous plan with a fractional quantity that uses the whole capacity.
C1_Witness ==
  /\ PlanoRetornado /\ ~arredondar_resultado
  /\ \E i \in 1..Len(Entrada) :
       /\ Producao[i] % Sub # 0
       /\ Valor(Entrada[i].MinVenda) < Producao[i]
       /\ Producao[i] < Valor(Entrada[i].MaxVenda)
  /\ resultados.tempo_usado = horas_total.num * Sub

\* C2: on both paths the returned profit is the sum of returned quantity *
\* (sale price - cost price); on the rounded path, whenever that sum differs
\* from the solver's objective value, the objective value is not what is
\* reported.
C2_LucroRecalculado ==
  PlanoRetornado =>
    /\ resultados.lucro_maximo =
         SumSeq([i \in 1..Len(Entrada) |-> Producao[i] * LucroDaLinha(Entrada[i])])
    /\ (arredondar_resultado /\ Producao # resultados.x
          /\ SumSeq([i \in 1..Len(Entrada) |-> Producao[i] * LucroDaLinha(Entrada[i])])
               # -resultados.fun)
         => resultados.lucro_maximo # -resultados.fun

\* A rounded plan whose profit differs from the solver's objective value.
C2_Witness ==
  /\ PlanoRetornado /\ arredondar_resultado
  /\ Producao # resultados.x
  /\ resultados.lucro_maximo # -resultados.fun

\* The time the minimum quantities alone take.
TempoDosMinimos(df) ==
  SumSeq([i \in 1..Len(df) |-> Valor(df[i].MinVenda) * TempoDaLinha(df[i])])

\* C3: when the minimum quantities alone take more time than the capacity,
\* the call returns no plan but an error message, and the page never shows
\* success, whatever the rounding flag.
C3_MinimosAcimaDaCapacidade ==
  (Terminou /\ chamou /\ IsNumber(horas_total)
     /\ TempoDosMinimos(Entrada) > horas_total.num * Sub) =>
    /\ resultados.tipo = "erro"
    /\ tela # "sucesso"
    /\ pc = "fim" => tela = "erro_sem_solucao"

\* The handler ran with rounding enabled on minimums that exceed the capacity.
C3_Witness ==
  /\ pc = "fim" /\ chamou /\ arredondar_resultado
  /\ LimitesValidos(Entrada)
  /\ TempoDosMinimos(Entrada) > horas_total.num * Sub
  /\ resultados.tipo = "erro"

\* The half-unit grid of quantity vectors within the rows' bounds.
Grade(df) ==
  LET n == Len(df)
      top == CHOOSE m \in {Valor(df[i].MaxVenda) : i \in 1..n} :
               \A i \in 1..n : Valor(df[i].MaxVenda) <= m
      vals == {U(k) : k \in 0..(top \div Meio)}
  IN  {q \in [1..n -> vals] :
         \A i \in 1..n : Valor(df[i].MinVenda) <= q[i] /\ q[i] <= Valor(df[i].MaxVenda)}

\* C4: with rounding disabled a returned plan is profit-maximal: no quantity
\* vector (of the half-unit grid) within every row's bounds and within the
\* capacity has a greater profit.  In the scenario (profits 10, 8, 5, times
\* 0.45, 0.40, 0.30, bounds 36, 28, 24, capacity 20 h) variant 1 gets 36,
\* variant 2 gets 9.5, variant 3 gets 0, and the profit is 436.
C4_PlanoOtimo ==
  (PlanoRetornado /\ ~arredondar_resultado) =>
    /\ \A q \in Grade(Entrada) :
         SumSeq([i \in 1..Len(Entrada) |-> q[i] * TempoDaLinha(Entrada[i])])
             <= horas_total.num * Sub
         => SumSeq([i \in 1..Len(Entrada) |-> q[i] * LucroDaLinha(Entrada[i])])
              <= resultados.lucro_maximo
    /\ (df_editado = Cenario /\ horas_total = HorasCenario) =>
         /\ Producao = <<36 * Sub, 19 * Meio, 0>>
         /\ resultados.lucro_maximo = 436 * Sub

\* The scenario solved without rounding.
C4_Witness ==
  /\ PlanoRetornado /\ ~arredondar_resultado
  /\ df_editado = Cenario /\ horas_total = HorasCenario
  /\ Producao[2] = 19 * Meio

\* A tolerance far smaller than the time of one unit: a hundredth of the
\* time of one unit of the fastest category.
Tolerancia == (TEMPOS.P * Sub) \div 100

\* C5 as stated: with rounding enabled the time recomputed from the rounded
\* quantities exceeds the capacity by no more than a negligible tolerance.
C5_ArredondadoDentroDaCapacidade ==
  (PlanoRetornado /\ arredondar_resultado) =>
    resultados.tempo_usado <= horas_total.num * Sub + Tolerancia

\* C5 amended: with rounding enabled the returned time is the time of the
\* rounded quantities; it may exceed the capacity, but by no more than half
\* a unit's time for each variant.
C5_ExcessoLimitado ==
  (PlanoRetornado /\ arredondar_resultado) =>
    /\ resultados.tempo_usado =
         SumSeq([i \in 1..Len(Entrada) |-> Producao[i] * TempoDaLinha(Entrada[i])])
    /\ resultados.tempo_usado <=
         horas_total.num * Sub
           + SumSeq([i \in 1..Len(Entrada) |-> Meio * TempoDaLinha(Entrada[i])])

\* A rounded plan that takes more time than the capacity.
C5_Witness ==
  /\ PlanoRetornado /\ arredondar_resultado
  /\ resultados.tempo_usado > horas_total.num * Sub + Tolerancia

\* The rows of the edited table that have an id, in order.
ComId(df) == SelectSeq(df, LAMBDA r : r.Modelo # NaN)

\* C6 as stated: a row whose category is not G, M or P is kept and is given
\* the unit time of G in the constraint row and in the reported time.
C6_CategoriaDesconhecidaRecebeG ==
  (pc = "fim" /\ chamou) =>
    /\ Len(df_validado) = Len(ComId(df_editado))
    /\ \A i \in 1..Len(df_validado) :
         ComId(df_editado)[i].Categoria \notin DOMAIN TEMPOS =>
           /\ df_validado[i].TempoPorUnidade = TEMPOS.G
           /\ resultados.tipo = "plano" =>
                df_validado[i].TempoTotal = TEMPOS.G * df_validado[i].ProducaoIdeal

\* C6 amended: a row with an id is kept; when its category is missing it
\* becomes G and gets G's unit time; when its category is present but not
\* G, M or P it keeps that category and gets unit time 0, in the constraint
\* row and in the reported time.
C6_SoCategoriaAusenteRecebeG ==
  (pc = "fim" /\ chamou) =>
    /\ Len(df_validado) = Len(ComId(df_editado))
    /\ \A i \in 1..Len(df_validado) :
         LET c == ComId(df_editado)[i].Categoria
         IN  /\ c = NaN =>
                  /\ df_validado[i].Categoria = "G"
                  /\ df_validado[i].TempoPorUnidade = TEMPOS.G
                  /\ resultados.tipo = "plano" =>
                       df_validado[i].TempoTotal = TEMPOS.G * df_validado[i].ProducaoIdeal
             /\ (c # NaN /\ c \notin DOMAIN TEMPOS) =>
                  /\ df_validado[i].Categoria = c
                  /\ df_validado[i].TempoPorUnidade = 0
                  /\ resultados.tipo = "plano" => df_validado[i].TempoTotal = 0

\* A plan that produces a row of missing category and a row of unrecognised
\* category.
C6_Witness ==
  /\ pc = "fim" /\ resultados.tipo = "plano"
  /\ \E i, j \in 1..Len(df_validado) :
       /\ ComId(df_editado)[i].Categoria = NaN
       /\ df_validado[i].ProducaoIdeal > 0
       /\ ComId(df_editado)[j].Categoria = "X"
       /\ df_validado[j].ProducaoIdeal > 0

\* C7: no exception of the solve leaves calcular_e_otimizar: a call ends
\* with a plan or with the error outcome.
C7_NenhumaExcecaoPropaga ==
  (Terminou /\ chamou) => resultados.tipo \in {"plano", "erro"}

LimitesNaoNegativos(df) ==
  \A i \in 1..Len(df) : 0 <= Valor(df[i].MinVenda)

LimitesInteiros(r) ==
  Valor(r.MinVenda) % Sub = 0 /\ Valor(r.MaxVenda) % Sub = 0

\* C9 as stated: with rounding enabled every rounded quantity lies within
\* its row's bounds, for all non-negative bounds with min <= max, whole or
\* not.
C9_ArredondadoDentroDosLimites ==
  (PlanoRetornado /\ arredondar_resultado
     /\ LimitesValidos(Entrada) /\ LimitesNaoNegativos(Entrada)) =>
    \A i \in 1..Len(Entrada) :
      /\ Valor(Entrada[i].MinVenda) <= Producao[i]
      /\ Producao[i] <= Valor(Entrada[i].MaxVenda)

\* C9 amended: with rounding enabled every returned quantity is a whole
\* number, and lies within its row's bounds when both bounds are whole
\* numbers; a row with a fractional bound stays within half a unit of it.
C9_ArredondadoDentroDeLimitesInteiros ==
  (PlanoRetornado /\ arredondar_resultado
     /\ LimitesValidos(Entrada) /\ LimitesNaoNegativos(Entrada)) =>
    \A i \in 1..Len(Entrada) :
      /\ Producao[i] % Sub = 0
      /\ LimitesInteiros(Entrada[i]) =>
           /\ Valor(Entrada[i].MinVenda) <= Producao[i]
           /\ Producao[i] <= Valor(Entrada[i].MaxVenda)
      /\ Valor(Entrada[i].MinVenda) - Meio <= Producao[i]
      /\ Producao[i] <= Valor(Entrada[i].MaxVenda) + Meio

\* A rounded plan in which a row with whole bounds had a fractional
\* continuous quantity.
C9_Witness ==
  /\ PlanoRetornado /\ arredondar_resultado
  /\ \E i \in 1..Len(Entrada) :
       /\ LimitesInteiros(Entrada[i])
       /\ resultados.x[i] % Sub # 0
       /\ Producao[i] # resultados.x[i]

\* The columns of the edited table.
ColunasDeEntrada ==
  {"Modelo", "Categoria", "PrecoVenda", "PrecoCusto", "MinVenda", "MaxVenda"}

\* What a finished request of session s may show, given only its own table,
\* capacity and rounding flag.
ResultadosDe(s) ==
  IF Normalizar(df_editado[s]) = <<>> THEN {Nenhum}
  ELSE calcular_e_otimizar(Normalizar(df_editado[s]), horas_total[s],
                           arredondar_resultado[s], TEMPOS)

C10_ResultadoProprio ==
  \A s \in Sessoes :
    /\ pc[s] = "fim" => resultados[s] \in ResultadosDe(s)
    /\ \A i \in 1..Len(df_editado[s]) : DOMAIN df_editado[s][i] = ColunasDeEntrada

C10_PassoIsolado ==
  /\ TEMPOS_POR_CATEGORIA' = TEMPOS_POR_CATEGORIA
  /\ \A s \in Sessoes :
       /\ pc[s] # "fim" => df_editado'[s] = df_editado[s]
       /\ pc'[s] = pc[s] =>
            /\ resultados'[s] = resultados[s]
            /\ df_validado'[s] = df_validado[s]
            /\ tela'[s] = tela[s]

\* C10: over every interleaving of the sessions' requests, a finished
\* request shows an outcome of its own table, capacity and flag alone; no
\* step changes TEMPOS_POR_CATEGORIA; a request never changes the edited
\* table, whose rows never get the derived columns; and a step of one
\* session changes nothing of another session.
C10_RequisicoesIndependentes ==
  []C10_ResultadoProprio /\ [][C10_PassoIsolado]_vars

\* One session holds a plan while the other, with a different table, is
\* between its normalisation and its call.
C10_Witness ==
  /\ pc["s1"] = "fim" /\ resultados["s1"].tipo = "plano"
  /\ pc["s2"] = "validado"
  /\ df_editado["s1"] # df_editado["s2"]
  /\ \E i \in 1..Len(df_validado["s1"]) : df_validado["s1"][i].ProducaoIdeal > 0

====
